---- MODULE Spec2Model ----
(***************************************************************************)
(* The `raises` matcher and the `calling` deferred call of                 *)
(* hamcrest/core/core/raises.py.                                           *)
(*                                                                         *)
(* Spec         : one Raises matcher driven by any sequence of _matches,   *)
(*                describe_to, describe_mismatch and describe_match calls  *)
(*                on a pool of candidate objects, with garbage collection  *)
(*                of candidates as an environment step.                    *)
(* SpecRef      : Spec, keeping in refOutcome the outcome of the most      *)
(*                recent invocation of the weak reference's referent.      *)
(* SpecDeferred : DeferredCallable objects made by calling(), rebound by   *)
(*                with_args and invoked.                                   *)
(*                                                                         *)
(* Text is a sequence of tokens; a message or a pattern is a sequence of   *)
(* one-character tokens.  A description is the sequence of texts appended  *)
(* to the description sink by one call.                                    *)
(***************************************************************************)
EXTENDS Integers, Sequences, FiniteSets, TLC

\* ------------------------------------------------------------------ bounds
NumCallables == 2
MaxMsgLen == 2
MaxArgs == 2

\* The text "abab...", cut after n characters.
Letter(i) == IF i % 2 = 1 THEN "a" ELSE "b"
Prefix(n) == [i \in 1..n |-> Letter(i)]

\* ----------------------------------------------------------------- objects
\* Candidate objects handed to the matcher: zero-argument callables, the
\* integer 7 and the tuple (1, 2).
Callables == {[kind |-> "fn", id |-> i] : i \in 1..NumCallables}
IntObjs == {[kind |-> "int", id |-> 7]}
TupleObjs == {[kind |-> "tuple", id |-> 2]}
Objects == Callables \cup IntObjs \cup TupleObjs
NoObj == [kind |-> "None", id |-> 0]

\* Errors: an exception class name and the single string argument.
None == [kind |-> "NoneType", msg |-> <<>>]
Returned == [kind |-> "returned", msg |-> <<>>]
Never == [kind |-> "never", msg |-> <<>>]
ExpectedKinds == {"ValueError", "Exception"}
Msgs == {Prefix(n) : n \in 0..MaxMsgLen}
\* What a candidate raises: ValueError(m) for each message m, or
\* KeyboardInterrupt("a"), which is no Exception.
RaisedErrors ==
    {[kind |-> "ValueError", msg |-> m] : m \in Msgs}
        \cup {[kind |-> "KeyboardInterrupt", msg |-> Prefix(1)]}

\* The class hierarchy of the host language (method resolution order).
Mro(kind) ==
    CASE kind = "ValueError" -> {"ValueError", "Exception", "BaseException"}
      [] kind = "TypeError" -> {"TypeError", "Exception", "BaseException"}
      [] kind = "KeyboardInterrupt" -> {"KeyboardInterrupt", "BaseException"}
      [] OTHER -> {kind}

NoPattern == [given |-> FALSE, re |-> <<>>]
PatternTexts == {<<>>, <<"b">>, <<".">>}
Patterns == {NoPattern} \cup {[given |-> TRUE, re |-> p] : p \in PatternTexts}

VARIABLES
    expected,      \* self.expected
    pattern,       \* self.pattern
    actual,        \* self.actual
    function,      \* self.function: a weak reference (its referent), or NoObj
    alive,         \* the callables not yet garbage collected
    lastOp,        \* the last call made on the matcher, what it found and invoked
    description,   \* the texts the last call appended to its description
    escaped,       \* the error the last call let propagate, or None
    lastOutcome,   \* outcome of the matcher's most recent invocation
    refOutcome,    \* outcome of the most recent invocation of function's referent
    deferred,      \* the DeferredCallable objects
    recorded,      \* the arguments most recently given to with_args, per object
    lastD          \* the last DeferredCallable operation and what it did

vars == <<expected, pattern, actual, function, alive, lastOp, description,
          escaped, lastOutcome, refOutcome, deferred, recorded, lastD>>
matcherVars == <<expected, pattern, actual, function, alive, lastOp, description,
                 escaped, lastOutcome, refOutcome>>
deferredVars == <<deferred, recorded, lastD>>

\* ------------------------------------------------------- host language
callable(item) == item.kind = "fn"

isinstance(err, kind) == kind \in Mro(err.kind)

\* str(object) of a candidate.
str_obj(item) ==
    CASE item.kind = "int" -> <<"7">>
      [] item.kind = "tuple" /\ item.id = 2 -> <<"(1, 2)">>
      [] OTHER -> <<"<function>">>

\* str(exception): the single argument.
str(err) == err.msg

\* repr of a string: double quotes when it holds a single quote.
Quote(msg) == IF \E i \in 1..Len(msg) : msg[i] = "'" THEN "\"" ELSE "'"

\* "%r" of self.actual.
repr(err) ==
    IF err = None THEN <<"None">>
    ELSE <<err.kind, "(", Quote(err.msg)>> \o err.msg \o <<Quote(err.msg), ")">>

\* "%s" of type(self.actual), and of a class.
class_str(kind) == <<"<class '", kind, "'>">>
type_str(err) == class_str(err.kind)

\* re.search(pattern, text) is not None, for patterns of literal characters
\* and ".".
re_match_anchored(re, text) ==
    /\ Len(re) <= Len(text)
    /\ \A j \in 1..Len(re) : re[j] = "." \/ re[j] = text[j]

re_search(re, text) ==
    \E i \in 0..(Len(text) - Len(re)) :
        \A j \in 1..Len(re) : re[j] = "." \/ re[j] = text[i + j]

\* The error of calling a non-callable object.
NotCallableError(item) ==
    IF item.kind = "int"
    THEN [kind |-> "TypeError",
          msg |-> <<"'", "i", "n", "t", "'", " ", "o", "b", "j", "e", "c", "t", " ",
                    "i", "s", " ", "n", "o", "t", " ", "c", "a", "l", "l", "a", "b",
                    "l", "e">>]
    ELSE [kind |-> "TypeError",
          msg |-> <<"'", "t", "u", "p", "l", "e", "'", " ", "o", "b", "j", "e", "c",
                    "t", " ", "i", "s", " ", "n", "o", "t", " ", "c", "a", "l", "l",
                    "a", "b", "l", "e">>]

\* What function() can do: a callable returns or raises anything; calling
\* another object raises TypeError.
Outcomes(item) ==
    IF callable(item) THEN {Returned} \cup RaisedErrors ELSE {NotCallableError(item)}

\* "%s is not callable" % item: a tuple operand is the argument list of the
\* format, so it must hold exactly one element, which is formatted in its place.
format_not_callable(item) ==
    IF item.kind = "tuple"
    THEN IF item.id = 1
         THEN [raised |-> None, text |-> <<"1", " is not callable">>]
         ELSE [raised |-> [kind |-> "TypeError",
                           msg |-> <<"not all arguments converted during string formatting">>],
               text |-> <<>>]
    ELSE [raised |-> None, text |-> str_obj(item) \o <<" is not callable">>]

\* weakref.ref(item), and calling the weak reference.
ref(item) == item
deref(r) == IF r \in alive THEN r ELSE NoObj

\* ------------------------------------------------------------ Raises
Self == [expected |-> expected, pattern |-> pattern, actual |-> actual,
         function |-> function]

\* The result of a method: the matcher afterwards, the value returned, the
\* objects it called, and the error it let propagate (None: it returned).
Result(self, ret, invoked, esc) ==
    [self |-> self, ret |-> ret, invoked |-> invoked, escaped |-> esc]

_call_function_keep_actual(self, fn, outcome) ==
    IF outcome = Returned
    THEN Result(self, FALSE, <<fn>>, None)
    ELSE LET caught == [self EXCEPT !.actual = outcome]
         IN  IF isinstance(caught.actual, self.expected)
             THEN IF self.pattern # NoPattern
                  THEN Result(caught, re_search(self.pattern.re, str(caught.actual)),
                              <<fn>>, None)
                  ELSE Result(caught, TRUE, <<fn>>, None)
             ELSE Result(caught, FALSE, <<fn>>, None)

_call_function_except_Exception(self, fn, outcome) ==
    LET cleared == [self EXCEPT !.actual = None]
    IN  IF outcome = Returned
        THEN Result(cleared, FALSE, <<fn>>, None)
        ELSE IF ~isinstance(outcome, "Exception")
        THEN Result(cleared, FALSE, <<fn>>, outcome)
        ELSE LET caught == [cleared EXCEPT !.actual = outcome]
             IN  IF isinstance(caught.actual, self.expected)
                 THEN IF self.pattern # NoPattern
                      THEN Result(caught, re_search(self.pattern.re, str(caught.actual)),
                                  <<fn>>, None)
                      ELSE Result(caught, TRUE, <<fn>>, None)
                 ELSE Result(caught, FALSE, <<fn>>, None)

\* fn() is run under `except BaseException`: whatever it raises is caught.
_call_function(self, fn, outcome) ==
    LET cleared == [self EXCEPT !.actual = None]
    IN  IF outcome = Returned
        THEN Result(cleared, FALSE, <<fn>>, None)
        ELSE LET caught == [cleared EXCEPT !.actual = outcome]
             IN  IF isinstance(caught.actual, self.expected)
                 THEN IF self.pattern # NoPattern
                      THEN Result(caught, re_search(self.pattern.re, str(caught.actual)),
                                  <<fn>>, None)
                      ELSE Result(caught, TRUE, <<fn>>, None)
                 ELSE Result(caught, FALSE, <<fn>>, None)

_matches(self, item, outcome) ==
    IF ~callable(item)
    THEN Result(self, FALSE, <<>>, None)
    ELSE _call_function([self EXCEPT !.function = ref(item)], item, outcome)

describe_to(self) ==
    <<<<"Expected a callable raising ">> \o class_str(self.expected)>>

\* Line 51: whether describe_mismatch must invoke the item, fn being what the
\* weak reference resolved to.
stale_unset_only(fn, item) == fn = NoObj

stale(fn, item) == fn = NoObj \/ fn # item

\* Lines 56-68: the texts appended for self.actual.
mismatch_text_no_none_test(self) ==
    IF isinstance(self.actual, self.expected)
    THEN IF self.pattern # NoPattern
         THEN <<<<"Correct assertion type raised, but the expected pattern (\"">>
                    \o self.pattern.re \o <<"\") not found. ">>,
                <<"Exception message was: \"">> \o str(self.actual) \o <<"\"">>>>
         ELSE <<>>
    ELSE <<repr(self.actual) \o <<" of type ">> \o type_str(self.actual)
               \o <<" was raised instead">>>>

mismatch_text(self) ==
    IF self.actual = None
    THEN <<<<"No exception raised.">>>>
    ELSE IF isinstance(self.actual, self.expected)
         THEN IF self.pattern # NoPattern
              THEN <<<<"Correct assertion type raised, but the expected pattern (\"">>
                         \o self.pattern.re \o <<"\") not found. ">>,
                     <<"Exception message was: \"">> \o str(self.actual) \o <<"\"">>>>
              ELSE <<>>
         ELSE <<repr(self.actual) \o <<" of type ">> \o type_str(self.actual)
                    \o <<" was raised instead">>>>

\* The result of a describe_ method: as Result, with the texts appended in
\* place of a returned value.
Described(self, invoked, texts, esc) ==
    [self |-> self, invoked |-> invoked, description |-> texts, escaped |-> esc]

describe_mismatch(self, item, outcome) ==
    IF ~callable(item)
    THEN LET f == format_not_callable(item)
         IN  Described(self, <<>>, IF f.raised = None THEN <<f.text>> ELSE <<>>, f.raised)
    ELSE LET fn == IF self.function = NoObj THEN NoObj ELSE deref(self.function)
         IN  IF stale(fn, item)
             THEN LET called == _call_function([self EXCEPT !.function = ref(item)],
                                               item, outcome)
                  IN  IF called.escaped # None \/ ~called.ret
                      THEN Described(called.self, called.invoked, <<>>, called.escaped)
                      ELSE Described(called.self, called.invoked,
                                     mismatch_text(called.self), None)
             ELSE Described(self, <<>>, mismatch_text(self), None)

describe_match(self, item, outcome) ==
    LET called == _call_function(self, item, outcome)
    IN  IF called.escaped # None
        THEN Described(called.self, called.invoked, <<>>, called.escaped)
        ELSE Described(called.self, called.invoked,
                       <<repr(called.self.actual) \o <<" of type ">>
                           \o type_str(called.self.actual) \o <<" was raised.">>>>,
                       None)

\* ----------------------------------------------------- DeferredCallable
Targets == {"f", "g"}
Deferreds == {"d1", "d2"}
KwKeys == {"key"}
KwVals == {"v", "w"}
\* The positional arguments (), (1,), (1, 2), ...
ArgSeqs == {[i \in 1..n |-> i] : n \in 0..MaxArgs}
KwMaps == UNION {[K -> KwVals] : K \in SUBSET KwKeys}
NoKw == [k \in {} |-> "v"]
\* What a target raises.
TargetErrors == {[kind |-> "ValueError", msg |-> Prefix(1)]}
Unmade == [made |-> FALSE, func |-> "f", args |-> <<>>, kwargs |-> NoKw]

DeferredCallable__init__(func) ==
    [made |-> TRUE, func |-> func, args |-> <<>>, kwargs |-> NoKw]

\* self.func(*self.args, **self.kwargs): the calls made, and the error let out.
DeferredCallable__call__(self, out) ==
    [calls |-> <<[func |-> self.func, args |-> self.args, kwargs |-> self.kwargs]>>,
     raised |-> out, ret |-> "None"]

with_args_extend(d, self, args, kwargs) ==
    [self |-> [self EXCEPT !.args = self.args \o args, !.kwargs = kwargs], ret |-> d]

with_args(d, self, args, kwargs) ==
    [self |-> [self EXCEPT !.args = args, !.kwargs = kwargs], ret |-> d]

\* ------------------------------------------------------------- actions
\* What the weak reference was when describe_mismatch(item) was called.
RefWas(item) ==
    IF function = NoObj THEN "unset"
    ELSE IF function \notin alive THEN "collected"
    ELSE IF function = item THEN "same" ELSE "other"

\* follows: the call comes right after a _matches call on the same item that
\* returned False.
Op(op, item, ret, invoked, refWas, follows) ==
    [op |-> op, item |-> item, ret |-> ret, invoked |-> invoked,
     refWas |-> refWas, follows |-> follows]

\* The objects the caller can still hand over.
Passable == alive \cup IntObjs \cup TupleObjs

History(r, item, outcome, track) ==
    /\ lastOutcome' = IF r.invoked # <<>> THEN outcome ELSE lastOutcome
    /\ refOutcome' = IF ~track THEN refOutcome
                     ELSE IF r.invoked = <<item>> /\ r.self.function = item THEN outcome
                     ELSE IF r.self.function = function THEN refOutcome
                     ELSE Never

Matches(track) ==
    \E item \in Passable : \E outcome \in Outcomes(item) :
        LET r == _matches(Self, item, outcome)
        IN  /\ actual' = r.self.actual
            /\ function' = r.self.function
            /\ lastOp' = Op("matches", item, IF r.ret THEN "True" ELSE "False",
                            r.invoked, "n/a", FALSE)
            /\ description' = <<>>
            /\ escaped' = r.escaped
            /\ History(r, item, outcome, track)
            /\ UNCHANGED <<expected, pattern, alive, deferred, recorded, lastD>>

DescribeTo ==
    /\ lastOp' = Op("describe_to", NoObj, "None", <<>>, "n/a", FALSE)
    /\ description' = describe_to(Self)
    /\ escaped' = None
    /\ UNCHANGED <<expected, pattern, actual, function, alive, lastOutcome,
                   refOutcome, deferred, recorded, lastD>>

DescribeMismatch(track) ==
    \E item \in Passable : \E outcome \in Outcomes(item) :
        LET r == describe_mismatch(Self, item, outcome)
        IN  /\ actual' = r.self.actual
            /\ function' = r.self.function
            /\ lastOp' = Op("describe_mismatch", item, "None", r.invoked,
                            IF callable(item) THEN RefWas(item) ELSE "n/a",
                            /\ lastOp.op = "matches"
                            /\ lastOp.item = item
                            /\ lastOp.ret = "False")
            /\ description' = r.description
            /\ escaped' = r.escaped
            /\ History(r, item, outcome, track)
            /\ UNCHANGED <<expected, pattern, alive, deferred, recorded, lastD>>

DescribeMatch(track) ==
    \E item \in Passable : \E outcome \in Outcomes(item) :
        LET r == describe_match(Self, item, outcome)
        IN  /\ actual' = r.self.actual
            /\ function' = r.self.function
            /\ lastOp' = Op("describe_match", item, "None", r.invoked, "n/a", FALSE)
            /\ description' = r.description
            /\ escaped' = r.escaped
            /\ History(r, item, outcome, track)
            /\ UNCHANGED <<expected, pattern, alive, deferred, recorded, lastD>>

\* The environment drops its last strong reference to a callable.
Collect ==
    \E c \in alive :
        /\ alive' = alive \ {c}
        /\ UNCHANGED <<expected, pattern, actual, function, lastOp, description,
                       escaped, lastOutcome, refOutcome, deferred, recorded, lastD>>

DOp(op, d, ret, calls, raised, targetRaised) ==
    [op |-> op, d |-> d, ret |-> ret, calls |-> calls, raised |-> raised,
     targetRaised |-> targetRaised]

Calling ==
    \E d \in Deferreds : \E func \in Targets :
        /\ ~deferred[d].made
        /\ deferred' = [deferred EXCEPT ![d] = DeferredCallable__init__(func)]
        /\ recorded' = [recorded EXCEPT ![d] =
                            [func |-> func, args |-> <<>>, kwargs |-> NoKw, times |-> "never"]]
        /\ lastD' = DOp("calling", d, d, <<>>, None, None)
        /\ UNCHANGED matcherVars

WithArgs ==
    \E d \in Deferreds : \E args \in ArgSeqs : \E kwargs \in KwMaps :
        LET r == with_args(d, deferred[d], args, kwargs)
        IN  /\ deferred[d].made
            /\ deferred' = [deferred EXCEPT ![d] = r.self]
            /\ recorded' = [recorded EXCEPT ![d] =
                                [func |-> recorded[d].func, args |-> args, kwargs |-> kwargs,
                                 times |-> IF recorded[d].times = "never" THEN "once"
                                           ELSE "more"]]
            /\ lastD' = DOp("with_args", d, r.ret, <<>>, None, None)
            /\ UNCHANGED matcherVars

Invoke ==
    \E d \in Deferreds : \E out \in {None} \cup TargetErrors :
        LET r == DeferredCallable__call__(deferred[d], out)
        IN  /\ deferred[d].made
            /\ lastD' = DOp("call", d, r.ret, r.calls, r.raised, out)
            /\ UNCHANGED <<deferred, recorded, matcherVars>>

\* ------------------------------------------------------ specifications
InitDeferred ==
    /\ deferred = [d \in Deferreds |-> Unmade]
    /\ recorded = [d \in Deferreds |->
                      [func |-> "f", args |-> <<>>, kwargs |-> NoKw, times |-> "never"]]
    /\ lastD = DOp("init", "d1", "None", <<>>, None, None)

InitMatcher ==
    /\ actual = None
    /\ function = NoObj
    /\ alive = Callables
    /\ lastOp = Op("init", NoObj, "None", <<>>, "n/a", FALSE)
    /\ description = <<>>
    /\ escaped = None
    /\ lastOutcome = Never
    /\ refOutcome = Never

Init ==
    /\ expected \in ExpectedKinds
    /\ pattern \in Patterns
    /\ InitMatcher
    /\ InitDeferred

Next ==
    \/ Matches(FALSE)
    \/ DescribeTo
    \/ DescribeMismatch(FALSE)
    \/ DescribeMatch(FALSE)
    \/ Collect

Spec == Init /\ [][Next]_vars

\* The same matcher, with refOutcome kept.
NextRef ==
    \/ Matches(TRUE)
    \/ DescribeTo
    \/ DescribeMismatch(TRUE)
    \/ DescribeMatch(TRUE)
    \/ Collect

SpecRef == Init /\ [][NextRef]_vars

InitD ==
    /\ expected = "ValueError"
    /\ pattern = NoPattern
    /\ InitMatcher
    /\ InitDeferred

NextD == Calling \/ WithArgs \/ Invoke

SpecDeferred == InitD /\ [][NextD]_vars

\* -------------------------------------------------------------- claims
\* lastError after an invocation with the given outcome.
ActualOf(o) == IF o \in {Never, Returned} THEN None ELSE o

\* The pattern occurs somewhere in the text.
Found(p, text) ==
    \E k \in 1..(Len(text) + 1) :
        /\ k + Len(p) - 1 <= Len(text)
        /\ \A j \in 1..Len(p) : p[j] \in {".", text[k + j - 1]}

\* The outcome is an error of the expected kind whose text holds the pattern.
Satisfies(o) ==
    /\ o \notin {Never, Returned}
    /\ expected \in Mro(o.kind)
    /\ pattern.given => Found(pattern.re, o.msg)

\* The text that names the failure category of an outcome.
FailureText(o) ==
    IF o = Returned
    THEN <<<<"No exception raised.">>>>
    ELSE IF expected \notin Mro(o.kind)
    THEN <<repr(o) \o <<" of type ", "<class '", o.kind, "'>", " was raised instead">>>>
    ELSE <<<<"Correct assertion type raised, but the expected pattern (\"">>
               \o pattern.re \o <<"\") not found. ">>,
           <<"Exception message was: \"">> \o o.msg \o <<"\"">>>>

\* C1: _matches on a callable invokes it and returns True exactly when the
\* invocation raised an instance of the expected kind and the pattern, if
\* one is set, is found in the error's text; False when nothing was raised,
\* the kind is wrong, or the pattern is not found.
C1_MatchesIffRaisesExpected ==
    (lastOp.op = "matches" /\ callable(lastOp.item)) =>
        /\ lastOp.invoked = <<lastOp.item>>
        /\ lastOp.ret = (IF Satisfies(lastOutcome) THEN "True" ELSE "False")

C1_Witness ==
    /\ lastOp.op = "matches"
    /\ lastOp.ret = "True"
    /\ pattern = [given |-> TRUE, re |-> <<"b">>]
    /\ lastOutcome.msg = <<"a", "b">>

\* C2: no error raised by invoking a candidate propagates: every call that
\* invokes its item, and every call on a callable, returns normally, and
\* what was raised is held by lastError.
C2_CandidateErrorsAbsorbed ==
    (lastOp.invoked # <<>> \/ callable(lastOp.item)) =>
        /\ escaped = None
        /\ lastOp.invoked # <<>> => actual = ActualOf(lastOutcome)

C2_Witness ==
    /\ lastOp.op = "describe_match"
    /\ lastOutcome.kind = "KeyboardInterrupt"
    /\ actual = lastOutcome
    /\ escaped = None

\* C3: for a non-callable x, _matches(x) returns False and invokes nothing,
\* and describe_mismatch(x) appends exactly "<x> is not callable", invokes
\* nothing and returns.
C3_NonCallable ==
    /\ (lastOp.op = "matches" /\ lastOp.item \in Objects /\ ~callable(lastOp.item)) =>
           lastOp.ret = "False" /\ lastOp.invoked = <<>> /\ escaped = None
    /\ (lastOp.op = "describe_mismatch" /\ ~callable(lastOp.item)) =>
           /\ lastOp.invoked = <<>>
           /\ escaped = None
           /\ description = <<str_obj(lastOp.item) \o <<" is not callable">>>>

\* C4: describe_mismatch(c) on a callable c does not invoke c when the weak
\* reference resolved to c itself, and invokes c once, storing the reference
\* and the fresh lastError, when the reference was unset, dead or another
\* object.
C4_ReinvokesUnlessSameObject ==
    (lastOp.op = "describe_mismatch" /\ callable(lastOp.item)) =>
        IF lastOp.refWas = "same"
        THEN lastOp.invoked = <<>>
        ELSE /\ lastOp.refWas \in {"unset", "collected", "other"}
             /\ lastOp.invoked = <<lastOp.item>>
             /\ function = lastOp.item
             /\ actual = ActualOf(lastOutcome)

C4_Witness ==
    /\ lastOp.op = "describe_mismatch"
    /\ lastOp.follows
    /\ lastOp.refWas = "same"
    /\ lastOp.invoked = <<>>

\* C5: describe_mismatch(c) right after a failing _matches(c) appends the one
\* text of the failure category of that invocation, without invoking c again.
C5_MismatchTextAfterFailedMatch ==
    (lastOp.op = "describe_mismatch" /\ callable(lastOp.item) /\ lastOp.follows) =>
        /\ lastOp.invoked = <<>>
        /\ ~Satisfies(lastOutcome)
        /\ description = FailureText(lastOutcome)

C5_Witness ==
    /\ lastOp.op = "describe_mismatch"
    /\ lastOp.follows
    /\ pattern.given
    /\ expected \in Mro(lastOutcome.kind)
    /\ Len(description) = 2

\* C6: with_args returns the deferred call itself and keeps only the last
\* arguments; invoking it calls the target once with exactly those, and the
\* target's error is the error that comes out.
C6_DeferredCall ==
    /\ lastD.op = "with_args" =>
           /\ lastD.ret = lastD.d
           /\ deferred[lastD.d].args = recorded[lastD.d].args
           /\ deferred[lastD.d].kwargs = recorded[lastD.d].kwargs
    /\ lastD.op = "call" =>
           /\ lastD.calls = <<[func |-> recorded[lastD.d].func,
                               args |-> recorded[lastD.d].args,
                               kwargs |-> recorded[lastD.d].kwargs]>>
           /\ lastD.raised = lastD.targetRaised

C6_Witness ==
    /\ lastD.op = "call"
    /\ recorded[lastD.d].times = "more"
    /\ lastD.calls[1].args = <<1, 2>>
    /\ lastD.calls[1].kwargs = [k \in {"key"} |-> "v"]
    /\ lastD.raised # None

\* C7: describe_mismatch(c) on a callable the weak reference did not resolve
\* to invokes c and, when that invocation does not satisfy the match, appends
\* the text of its failure category.
C7_ReinvokedMismatchDescribed ==
    (/\ lastOp.op = "describe_mismatch"
     /\ callable(lastOp.item)
     /\ lastOp.refWas # "same"
     /\ ~Satisfies(lastOutcome)) =>
        /\ lastOp.invoked = <<lastOp.item>>
        /\ description = FailureText(lastOutcome)

\* C8: describe_mismatch(c) on a callable the weak reference did not resolve
\* to appends nothing when the fresh invocation satisfies the match, with or
\* without a pattern.
C8_ReinvokedMatchSilent ==
    (/\ lastOp.op = "describe_mismatch"
     /\ callable(lastOp.item)
     /\ lastOp.refWas # "same"
     /\ Satisfies(lastOutcome)) =>
        description = <<>>

\* C9: lastError is always what the matcher's most recent invocation left:
\* empty if it raised nothing, the error if it raised; and describe_match
\* invokes its item once and appends "<repr> of type <kind> was raised." for
\* that fresh lastError.
C9_LastErrorIsLatestOutcome ==
    /\ actual = ActualOf(lastOutcome)
    /\ lastOp.op = "describe_match" =>
           /\ lastOp.invoked = <<lastOp.item>>
           /\ description =
                  <<repr(ActualOf(lastOutcome))
                        \o <<" of type ", "<class '", ActualOf(lastOutcome).kind, "'>",
                             " was raised.">>>>

C9_Witness ==
    /\ lastOp.op = "describe_match"
    /\ lastOutcome = Returned
    /\ actual = None
    /\ description = <<<<"None", " of type ", "<class '", "NoneType", "'>", " was raised.">>>>

\* C10: whenever the weak reference resolves to a candidate c, lastError is
\* the outcome of the matcher's most recent invocation of c.
C10_LastErrorBelongsToReferent ==
    (function # NoObj /\ function \in alive) => actual = ActualOf(refOutcome)

====
